---- MODULE Spec2Model ----
(***************************************************************************)
(* News aggregator (news_forecaster): the article merge policy of          *)
(* NewsAggregator, the change classifier of ChangeDetector with its        *)
(* defensive reply parsing, and the orchestration of run.py.               *)
(*                                                                         *)
(* Scores are held in tenths (0.3 is 3, 1.0 is 10).  An optional value is  *)
(* None or the value itself.  A reply text is a sequence of tokens.        *)
(***************************************************************************)
EXTENDS Integers, Sequences, FiniteSets, TLC

VARIABLES
    new_snapshot,       \* merge_with_previous: argument new_snapshot
    previous_snapshot,  \* merge_with_previous: argument previous_snapshot (or None)
    max_articles,       \* merge_with_previous: argument max_articles
    merged,             \* merge_with_previous: the returned snapshot (Pending before the call)
    got_new_articles,   \* get_new_articles: its outcome (Pending before the call)
    text,               \* _parse_json_response: argument text
    parsed,             \* _parse_json_response: its outcome (Pending before the call)
    current_snapshot,   \* detect_changes: argument current_snapshot
    significance_threshold, \* ChangeDetector.significance_threshold, in tenths
    reply,              \* what the text-generation request of detect_changes yields
    detected,           \* detect_changes: its outcome (Pending before the call)
    llm_requests,       \* number of text-generation requests issued so far
    storage,            \* Storage: per question the latest.json and the timestamped files
    now,                \* the clock, in ticks
    pc,                 \* main: "idle" between runs, "processing" inside the question
                        \* loop, "crashed" when an exception has left main
    index,              \* main: position of the next question in the list
    updates,            \* main: the updates collected in this run
    emailed,            \* main: what the last summary did about send_news_alert (None before it)
    last,               \* the last call of process_question: its inputs and what it returned
    saved,              \* Storage: the snapshots handed to save_news so far, in call order
    loaded,             \* Storage: the outcome of load_latest_news (Pending before the call)
    retry,              \* MetaculusClient._request_with_retry: the state of one call
    reported            \* the urls listed as new in the verdicts of earlier runs

mergeVars == <<new_snapshot, max_articles, merged, got_new_articles>>
parseVars == <<text, parsed>>
detectVars == <<current_snapshot, significance_threshold, reply, detected, llm_requests>>

runVars == <<storage, now, pc, index, updates, emailed, last>>

storeVars == <<saved, loaded>>

\* What the aggregator, the classifier and a single run of main do not touch.
sideVars == <<storeVars, retry, reported>>

vars == <<previous_snapshot, mergeVars, parseVars, detectVars, runVars, sideVars>>

-----------------------------------------------------------------------------
(* Bounds of the model *)

MaxLen == 2             \* longest article list of an input snapshot
MaxArticlesBound == 3   \* largest max_articles passed to merge_with_previous
MaxReplyLen == 4        \* longest reply text, in tokens
MaxFetch == 2           \* most articles one fetch returns in a run
MaxTime == 2            \* the clock stops here

-----------------------------------------------------------------------------
(* Data model (models.py) *)

None == [none |-> TRUE]
Pending == [pending |-> TRUE]

URLs == {"A", "B", "C"}
Revs == {1, 2}

\* NewsArticle: the url is the dedup key; rev stands for the remaining content
\* (title, summary, full_text, ...), which may differ between two fetches of a url.
NewsArticle == [url : URLs, rev : Revs]

Min(a, b) == IF a <= b THEN a ELSE b
Max(a, b) == IF a >= b THEN a ELSE b

\* Ticks of the clock per second: fetched_at has sub-second resolution.
TicksPerSecond == 2

\* strftime("%Y-%m-%dT%H-%M-%S"): the instant cut to whole seconds.
strftime(dt) == [str |-> dt \div TicksPerSecond]

\* snapshot_id: str = "", the default of the field
EmptyStr == [empty |-> TRUE]

\* NewsSnapshot.model_post_init: an empty snapshot_id is set from fetched_at.
model_post_init(snapshot_id, fetched_at) ==
    IF snapshot_id = EmptyStr THEN strftime(fetched_at) ELSE snapshot_id

\* NewsSnapshot(question_id, fetched_at, articles) with model_post_init:
\* snapshot_id is not given, so it is derived from fetched_at.
NewsSnapshot(question_id, fetched_at, articles) ==
    [question_id |-> question_id,
     fetched_at  |-> fetched_at,
     articles    |-> articles,
     snapshot_id |-> model_post_init(EmptyStr, fetched_at)]

\* All sequences over S of length at most n.
SeqsUpTo(S, n) == UNION {[1..k -> S] : k \in 0..n}

\* {a.url for a in articles}
UrlSet(articles) == {articles[i].url : i \in DOMAIN articles}

\* Mutant of SliceTo: one entry too many is kept.
SliceOffByOne(seq, n) == SubSeq(seq, 1, Min(Max(n, 0) + 1, Len(seq)))

\* seq[:n] of Python: the first n entries for n >= 0, all but the last -n for n < 0.
SliceTo(seq, n) ==
    IF n >= 0 THEN SubSeq(seq, 1, Min(n, Len(seq)))
    ELSE SubSeq(seq, 1, Max(0, Len(seq) + n))

-----------------------------------------------------------------------------
(* NewsAggregator (news_aggregator.py) *)

\* [a for a in articles if a.url not in urls]
RECURSIVE NotInUrls(_, _)
NotInUrls(articles, urls) ==
    IF articles = <<>> THEN <<>>
    ELSE IF Head(articles).url \notin urls
         THEN <<Head(articles)>> \o NotInUrls(Tail(articles), urls)
         ELSE NotInUrls(Tail(articles), urls)

\* Mutant of GenuinelyNew: the fetched articles are not filtered.
GenuinelyNewUnfiltered(articles, previous_articles) == articles

\* existing_urls = {a.url for a in previous_snapshot.articles}
\* new_articles = [a for a in new_snapshot.articles if a.url not in existing_urls]
GenuinelyNew(articles, previous_articles) ==
    NotInUrls(articles, UrlSet(previous_articles))

\* Mutant of Combine: the previous articles first, the new ones after.
CombineOldFirst(new_articles, previous_articles) == previous_articles \o new_articles

\* combined = new_articles + previous_snapshot.articles
Combine(new_articles, previous_articles) == new_articles \o previous_articles

\* Mutant of merge_with_previous: max_articles is applied to new_snapshot also
\* when there is no previous snapshot.
merge_truncating_first_run(new, previous, max) ==
    IF previous = None
    THEN NewsSnapshot(new.question_id, new.fetched_at, SliceTo(new.articles, max))
    ELSE LET new_articles == GenuinelyNew(new.articles, previous.articles)
             combined     == SliceTo(Combine(new_articles, previous.articles), max)
         IN  NewsSnapshot(new.question_id, new.fetched_at, combined)

merge_with_previous(new, previous, max) ==
    IF previous = None THEN new
    ELSE LET new_articles == GenuinelyNew(new.articles, previous.articles)
             combined     == SliceTo(Combine(new_articles, previous.articles), max)
         IN  NewsSnapshot(new.question_id, new.fetched_at, combined)

\* Mutant of merge_inputs_after: the merged list is stored in new_snapshot,
\* which is then returned.
merge_in_place(new, previous, max) ==
    IF previous = None THEN <<new, previous>>
    ELSE <<merge_with_previous(new, previous, max), previous>>

\* The two argument snapshots as the call of merge_with_previous leaves them:
\* lines 178-194 build a set, new lists and a new NewsSnapshot; no attribute of
\* an argument is assigned and no list of an argument is changed in place.
merge_inputs_after(new, previous, max) == <<new, previous>>

\* Mutant of get_new_articles: an article counts as known only when previous
\* holds an equal article, not when it holds one of the same url.
get_new_articles_by_equality(current, previous) ==
    IF previous = None THEN current.articles
    ELSE SelectSeq(current.articles,
                   LAMBDA a : \A i \in DOMAIN previous.articles : previous.articles[i] # a)

get_new_articles(current, previous) ==
    IF previous = None THEN current.articles
    ELSE GenuinelyNew(current.articles, previous.articles)

-----------------------------------------------------------------------------
(* SpecMerge: merge_with_previous and get_new_articles applied to every pair
   of bounded snapshots *)

ArticleLists == SeqsUpTo(NewsArticle, MaxLen)

\* The orchestrator is not part of the function harnesses.
RunUnused ==
    /\ storage = None /\ now = 0 /\ pc = "idle" /\ index = 0
    /\ updates = <<>> /\ emailed = None /\ last = None

InitMerge ==
    /\ new_snapshot \in {NewsSnapshot(1, 2 * TicksPerSecond + 1, as) : as \in ArticleLists}
    /\ previous_snapshot \in {None} \cup {NewsSnapshot(1, 1, as) : as \in ArticleLists}
    /\ max_articles \in -1..MaxArticlesBound
    /\ merged = Pending /\ got_new_articles = Pending
    /\ saved = <<>> /\ loaded = Pending /\ retry = None /\ reported = {}
    /\ text = <<>> /\ parsed = Pending
    /\ current_snapshot = None /\ significance_threshold = 0 /\ reply = None
    /\ detected = Pending /\ llm_requests = 0
    /\ RunUnused

MergeCall ==
    /\ merged = Pending
    /\ new_snapshot # None
    /\ merged' = merge_with_previous(new_snapshot, previous_snapshot, max_articles)
    /\ new_snapshot' = merge_inputs_after(new_snapshot, previous_snapshot, max_articles)[1]
    /\ previous_snapshot' =
           merge_inputs_after(new_snapshot, previous_snapshot, max_articles)[2]
    /\ UNCHANGED <<sideVars, max_articles, got_new_articles, parseVars, detectVars, runVars>>

\* get_new_articles(current, previous), with new_snapshot as current.
GetNewArticlesCall ==
    /\ got_new_articles = Pending
    /\ new_snapshot # None
    /\ got_new_articles' = [value |-> get_new_articles(new_snapshot, previous_snapshot)]
    /\ UNCHANGED <<sideVars, new_snapshot, previous_snapshot, max_articles, merged,
                   parseVars, detectVars, runVars>>

NextMerge == MergeCall \/ GetNewArticlesCall

SpecMerge == InitMerge /\ [][NextMerge]_vars

-----------------------------------------------------------------------------
(* Claims about merge_with_previous, checked under SpecMerge *)

UrlsOf(articles) == [i \in DOMAIN articles |-> articles[i].url]

MergeReturned == merged # Pending

\* The merge policy stated on its own: the articles of new whose url no article
\* of previous carries, then all of previous, cut to the first max entries.
ExpectedMerge(new, previous, max) ==
    LET fresh(a) == \A i \in DOMAIN previous.articles : previous.articles[i].url # a.url
        full     == SelectSeq(new.articles, fresh) \o previous.articles
    IN  [i \in 1..Min(max, Len(full)) |-> full[i]]

\* C1: with previous_snapshot present and max_articles >= 0, the merged article
\* list is the genuinely new articles in their order, followed by the entire
\* previous list in its order, cut to the first max_articles entries.
C1_MergeNewFirstThenPrevious ==
    (MergeReturned /\ previous_snapshot # None /\ max_articles >= 0)
        => merged.articles = ExpectedMerge(new_snapshot, previous_snapshot, max_articles)

\* Previous [A, B] and fetched [B, C] were merged into [C, A, B].
C1_Witness ==
    /\ MergeReturned
    /\ previous_snapshot # None
    /\ UrlsOf(previous_snapshot.articles) = <<"A", "B">>
    /\ UrlsOf(new_snapshot.articles) = <<"B", "C">>
    /\ UrlsOf(merged.articles) = <<"C", "A", "B">>

\* C2: a snapshot returned by merge_with_previous has as many distinct urls as
\* it has articles, whatever the inputs.
C2_MergeNoDuplicateUrls ==
    MergeReturned => Cardinality(UrlSet(merged.articles)) = Len(merged.articles)

\* C3 as claimed: for max_articles >= 0 the returned snapshot never holds more
\* than max_articles articles, previous_snapshot present or absent.
C3_Original_LengthAtMostMax ==
    (MergeReturned /\ max_articles >= 0) => Len(merged.articles) <= max_articles

\* C3 as amended: with previous_snapshot present and max_articles >= 0 the
\* returned snapshot holds at most max_articles articles; with previous_snapshot
\* absent the returned snapshot is new_snapshot itself, of whatever length.
C3_LengthAtMostMaxWhenPrevious ==
    MergeReturned =>
        /\ (previous_snapshot # None /\ max_articles >= 0)
               => Len(merged.articles) <= max_articles
        /\ previous_snapshot = None => merged = new_snapshot

\* A merge that dropped articles of the previous snapshot to meet the bound.
C3_Witness ==
    /\ MergeReturned
    /\ previous_snapshot # None
    /\ max_articles >= 0
    /\ Len(merged.articles) = max_articles
    /\ Len(previous_snapshot.articles) > max_articles

-----------------------------------------------------------------------------
(* The reply of the text-generation service and its JSON content *)

\* A JSON member value of the reply object, as Python sees it after json.loads.
Num(n)    == [k |-> "number", v |-> n]      \* a JSON number, in tenths
NumStr(n) == [k |-> "numeric string", v |-> n]  \* a JSON string such as "0.9"
Absent    == [k |-> "absent", v |-> 0]      \* the key is missing
Null      == [k |-> "null", v |-> 0]        \* JSON null, Python None
Words     == [k |-> "words", v |-> 0]       \* a JSON string such as "high"

\* Values the SIGNIFICANCE_SCORE member takes in the model.
ScoreNumbers == {-1, 0, 2, 3, 10, 11}
ScoreValues == {Num(n) : n \in ScoreNumbers} \cup {NumStr(10), Absent, Null, Words}

\* Values the IS_SIGNIFICANT member takes: the JSON booleans, null, a missing
\* key, and the JSON strings "true", "false" and "maybe".
FlagValues == {"absent", "true", "false", "null", "'true'", "'false'", "'maybe'"}

\* A summary text: its kind and the article count it states.
Summary(kind, n) == [kind |-> kind, n |-> n]
SummaryValues == {Summary("absent", 0), Summary("null", 0), Summary("model text", 0)}

JsonObject(score, flag, summary) ==
    [SIGNIFICANCE_SCORE |-> score, IS_SIGNIFICANT |-> flag, CHANGE_SUMMARY |-> summary]

\* The object {} : every key is missing.
EmptyObject == JsonObject(Absent, "absent", Summary("absent", 0))

JsonObjects == {JsonObject(sc, fl, su) : sc \in ScoreValues, fl \in FlagValues, su \in SummaryValues}

\* A reply text is a sequence of tokens:
\*   prose   text holding no brace and no backtick
\*   fence   a ``` marker, with or without the json tag
\*   object  a well-formed JSON object without nested braces
\*   braces  a brace-delimited run without nested braces that is not JSON
\*   array   a well-formed JSON value that is not an object
Token(kind) == [t |-> kind, obj |-> EmptyObject]
ObjectToken(o) == [t |-> "object", obj |-> o]
BraceKinds == {"object", "braces"}

\* What json.loads returns or raises.
Returned(v) == [raised |-> "none", value |-> v]
Raised(exc) == [raised |-> exc, value |-> None]

\* json.loads(text): the text must be exactly one JSON value.
json_loads(txt) ==
    IF Len(txt) = 1 /\ txt[1].t = "object" THEN Returned([type |-> "dict", obj |-> txt[1].obj])
    ELSE IF Len(txt) = 1 /\ txt[1].t = "array" THEN Returned([type |-> "list", obj |-> EmptyObject])
    ELSE Raised("JSONDecodeError")

\* re.search(r"```(?:json)?\s*(\{.*?\})\s*```", text, re.DOTALL): the start
\* positions i of a fence directly followed by a brace run, such that some brace
\* run at or after it is directly followed by a fence.
FenceClosings(txt, i) ==
    {j \in (i + 1)..(Len(txt) - 1) : txt[j].t \in BraceKinds /\ txt[j + 1].t = "fence"}

FenceStarts(txt) ==
    {i \in 1..(Len(txt) - 2) :
        /\ txt[i].t = "fence"
        /\ txt[i + 1].t \in BraceKinds
        /\ FenceClosings(txt, i) # {}}

SetMin(S) == CHOOSE x \in S : \A y \in S : x <= y

\* json_match.group(1): leftmost start, shortest (lazy) extent.
FenceGroup(txt) ==
    LET i == SetMin(FenceStarts(txt))
        j == SetMin(FenceClosings(txt, i))
    IN  SubSeq(txt, i + 1, j)

\* re.search(r"\{[^{}]*\}", text, re.DOTALL): the first brace run of the text.
BraceStarts(txt) == {k \in 1..Len(txt) : txt[k].t \in BraceKinds}

BraceGroup(txt) == <<txt[SetMin(BraceStarts(txt))]>>

\* ChangeDetector._parse_json_response
parse_json_response(txt) ==
    IF json_loads(txt).raised = "none" THEN json_loads(txt)
    ELSE IF FenceStarts(txt) # {} THEN json_loads(FenceGroup(txt))
    ELSE IF BraceStarts(txt) # {} THEN json_loads(BraceGroup(txt))
    ELSE Raised("ValueError")

-----------------------------------------------------------------------------
(* SpecParse: _parse_json_response applied to every bounded reply text *)

\* Two objects that differ, so that the object a strategy picked is visible.
ObjectOne == JsonObject(Num(0), "false", Summary("model text", 0))
ObjectTwo == JsonObject(Num(10), "true", Summary("model text", 0))

ParseTokens ==
    {Token("prose"), Token("fence"), Token("braces"), Token("array"),
     ObjectToken(ObjectOne), ObjectToken(ObjectTwo)}

InitParse ==
    /\ text \in SeqsUpTo(ParseTokens, MaxReplyLen)
    /\ parsed = Pending
    /\ new_snapshot = None /\ previous_snapshot = None /\ max_articles = 0
    /\ merged = Pending /\ got_new_articles = Pending
    /\ saved = <<>> /\ loaded = Pending /\ retry = None /\ reported = {}
    /\ current_snapshot = None /\ significance_threshold = 0 /\ reply = None
    /\ detected = Pending /\ llm_requests = 0
    /\ RunUnused

ParseCall ==
    /\ parsed = Pending
    /\ parsed' = parse_json_response(text)
    /\ UNCHANGED <<sideVars, text, previous_snapshot, mergeVars, detectVars, runVars>>

NextParse == ParseCall

SpecParse == InitParse /\ [][NextParse]_vars

-----------------------------------------------------------------------------
(* Claims about _parse_json_response, checked under SpecParse *)

\* Each strategy on its own: whether it yields a value for the text.
WholeParses(txt) == json_loads(txt).raised = "none"
FencedParses(txt) == FenceStarts(txt) # {} /\ json_loads(FenceGroup(txt)).raised = "none"
BracesParse(txt) == BraceStarts(txt) # {} /\ json_loads(BraceGroup(txt)).raised = "none"

\* The cascade as claimed: the first strategy that yields a value decides, and
\* a strategy that yields none hands over to the next one.
ClaimedCascade(txt) ==
    IF WholeParses(txt) THEN json_loads(txt)
    ELSE IF FencedParses(txt) THEN json_loads(FenceGroup(txt))
    ELSE IF BracesParse(txt) THEN json_loads(BraceGroup(txt))
    ELSE Raised("no strategy succeeded")

\* C9: parsing yields the value of the first of the three strategies (whole
\* text, fenced block, first brace-delimited object) that succeeds, the third
\* being tried whenever the second fails, and it fails only if all three fail.
C9_ParseCascadeFirstSuccess ==
    parsed # Pending =>
        /\ (parsed.raised = "none") = (ClaimedCascade(text).raised = "none")
        /\ parsed.raised = "none" => parsed = ClaimedCascade(text)

-----------------------------------------------------------------------------
(* ChangeReport (models.py) and ChangeDetector.detect_changes *)

\* float(x) of Python on a member value.
PyFloat(x) ==
    IF x.k \in {"number", "numeric string"} THEN Returned(x.v)
    ELSE IF x.k = "null" THEN Raised("TypeError")
    ELSE Raised("ValueError")

\* Python truthiness of an IS_SIGNIFICANT value: a non-empty string is true.
Truthy(flag) == flag \in {"true", "'true'", "'false'", "'maybe'"}

\* Mutant of PyOr: the threshold alone decides, the flag is not read.
PyOrThresholdOnly(flag, above) == IF above THEN "true" ELSE "false"

\* flag or above, of Python: the first operand itself when it is truthy,
\* otherwise the second.
PyOr(flag, above) ==
    IF Truthy(flag) THEN flag
    ELSE IF above THEN "true" ELSE "false"

\* pydantic's validation of a bool field: booleans pass, the strings "true"
\* and "false" are read as booleans, any other string is refused.
BoolField(x) ==
    IF x \in {"true", "'true'"} THEN Returned(TRUE)
    ELSE IF x \in {"false", "'false'"} THEN Returned(FALSE)
    ELSE Raised("ValidationError")

\* Mutant of ChangeReport: significance_score is a float with no bounds.
ChangeReportAnyScore(question_id, previous_snapshot_id, current_snapshot_id, change_summary, significance_score, is_significant, new_articles) ==
    IF \/ previous_snapshot_id = None
       \/ current_snapshot_id = None
       \/ change_summary.kind = "null"
       \/ BoolField(is_significant).raised # "none"
    THEN Raised("ValidationError")
    ELSE Returned([question_id          |-> question_id,
                   previous_snapshot_id |-> previous_snapshot_id,
                   current_snapshot_id  |-> current_snapshot_id,
                   change_summary       |-> change_summary,
                   significance_score   |-> significance_score,
                   is_significant       |-> BoolField(is_significant).value,
                   new_articles         |-> new_articles])

\* ChangeReport(...): the pydantic constructor, which validates
\* previous_snapshot_id: str, current_snapshot_id: str, change_summary: str,
\* significance_score: float = Field(ge=0.0, le=1.0) and is_significant: bool.
ChangeReport(question_id, previous_snapshot_id, current_snapshot_id, change_summary, significance_score, is_significant, new_articles) ==
    IF \/ previous_snapshot_id = None
       \/ current_snapshot_id = None
       \/ change_summary.kind = "null"
       \/ significance_score < 0
       \/ significance_score > 10
       \/ BoolField(is_significant).raised # "none"
    THEN Raised("ValidationError")
    ELSE Returned([question_id          |-> question_id,
                   previous_snapshot_id |-> previous_snapshot_id,
                   current_snapshot_id  |-> current_snapshot_id,
                   change_summary       |-> change_summary,
                   significance_score   |-> significance_score,
                   is_significant       |-> BoolField(is_significant).value,
                   new_articles         |-> new_articles])

\* What the text-generation request yields: a reply body, or an error.
Content(txt) == [raised |-> "none", content |-> txt]
RequestFailed == [raised |-> "APIError", content |-> <<>>]

\* response.choices[0].message.content or "{}"
ResultText(content) == IF content = <<>> THEN <<ObjectToken(EmptyObject)>> ELSE content

\* Mutant of FallbackResult: the fallback is a neutral verdict.
FallbackNeutral(n) ==
    [type |-> "dict",
     obj  |-> JsonObject(Num(0), "false", Summary("analysis failed", n))]

\* The result substituted when the reply cannot be parsed.
FallbackResult(n) ==
    [type |-> "dict",
     obj  |-> JsonObject(Num(5), "true", Summary("analysis failed", n))]

\* result.get(key, default) for the three keys.
GetScore(obj) == IF obj.SIGNIFICANCE_SCORE.k = "absent" THEN Num(0) ELSE obj.SIGNIFICANCE_SCORE

\* Mutant of GetFlag: a missing flag counts as true.
GetFlagDefaultTrue(obj) == IF obj.IS_SIGNIFICANT = "absent" THEN "true" ELSE obj.IS_SIGNIFICANT

GetFlag(obj) == IF obj.IS_SIGNIFICANT = "absent" THEN "false" ELSE obj.IS_SIGNIFICANT

GetSummary(obj) ==
    IF obj.CHANGE_SUMMARY.kind = "absent" THEN Summary("No summary available.", 0)
    ELSE obj.CHANGE_SUMMARY

\* previous_snapshot.articles[:10] and new_articles[:10] (lines 88, 91)
PromptLimit == 10

\* The articles the prompt of the request shows (lines 87-100).
Prompt(previous, new_articles) ==
    [previous_summary |-> SliceTo(previous.articles, PromptLimit),
     new_articles     |-> SliceTo(new_articles, PromptLimit)]

\* The outcome of a call: the exception that left it (or "none"), the value
\* returned, the number of text-generation requests it issued, and the prompt
\* of the request (None when none was issued).
Outcome(r, requests, prompt) ==
    [raised |-> r.raised, value |-> r.value, requests |-> requests, prompt |-> prompt]

\* Mutant of RequestError: the failed request is issued a second time.
RequestErrorRetried(exc, prompt) == Outcome(Raised(exc), 2, prompt)

\* The await of lines 102-106 is inside no try: an exception of the request
\* leaves detect_changes after the one request.
RequestError(exc, prompt) == Outcome(Raised(exc), 1, prompt)

\* Mutant of VerdictArticles: the verdict lists the articles the prompt showed.
VerdictArticlesShown(new_articles) == SliceTo(new_articles, PromptLimit)

\* new_articles=new_articles (line 137): the whole list goes into the verdict.
VerdictArticles(new_articles) == new_articles

\* Mutant of NoNewArticles: the short-circuit is never taken.
NeverShortCircuit(new_articles) == FALSE

\* if not new_articles
NoNewArticles(new_articles) == new_articles = <<>>

\* The verdict built from the parsed or fallback result (lines 123-138).
BuildReport(question_id, previous, current, threshold, result, new_articles) ==
    IF result.type # "dict" THEN Raised("AttributeError")
    ELSE LET score == PyFloat(GetScore(result.obj)) IN
         IF score.raised # "none" THEN Raised(score.raised)
         ELSE ChangeReport(question_id,
                           previous.snapshot_id,
                           current.snapshot_id,
                           GetSummary(result.obj),
                           score.value,
                           PyOr(GetFlag(result.obj), score.value > threshold),
                           new_articles)

detect_changes(question_id, previous, current, threshold, rep) ==
    LET new_articles == GenuinelyNew(current.articles, previous.articles)
        prompt       == Prompt(previous, new_articles)
    IN
    IF NoNewArticles(new_articles)
    THEN Outcome(ChangeReport(question_id, previous.snapshot_id, current.snapshot_id,
                              Summary("No new articles found since last check.", 0),
                              0, "false", <<>>), 0, None)
    ELSE IF rep.raised # "none" THEN RequestError(rep.raised, prompt)
    ELSE LET p      == parse_json_response(ResultText(rep.content))
             result == IF p.raised \in {"JSONDecodeError", "ValueError"}
                       THEN FallbackResult(Len(new_articles))
                       ELSE p.value
         IN  Outcome(BuildReport(question_id, previous, current, threshold,
                                 result, VerdictArticles(new_articles)), 1, prompt)

-----------------------------------------------------------------------------
(* SpecDetect: detect_changes applied to bounded snapshots and replies *)

\* The thresholds the program configures: 0.2 (Config) and 0.3 (ChangeDetector).
Thresholds == {2, 3}

DetectArticles == {a \in NewsArticle : a.url \in {"A", "B"} /\ a.rev = 1}
DetectLists == SeqsUpTo(DetectArticles, MaxLen)

\* One more article than the prompt shows, each with a URL of its own.
ManyUrls == <<"U01", "U02", "U03", "U04", "U05", "U06", "U07", "U08", "U09", "U10", "U11">>
ManyArticles == [i \in 1..(PromptLimit + 1) |-> [url |-> ManyUrls[i], rev |-> 1]]
CurrentLists == DetectLists \cup {ManyArticles}

\* The shapes of reply text: empty, a bare object, a fenced object, an object
\* inside prose, plain prose, a JSON array, a fenced or bare brace run that is
\* not JSON, and an object followed by a fenced brace run that is not JSON.
ReplyTexts(o) ==
    {<<>>,
     <<ObjectToken(o)>>,
     <<Token("fence"), ObjectToken(o), Token("fence")>>,
     <<Token("prose"), ObjectToken(o), Token("prose")>>,
     <<Token("prose")>>,
     <<Token("array")>>,
     <<Token("fence"), Token("braces"), Token("fence")>>,
     <<Token("prose"), Token("braces")>>,
     <<ObjectToken(o), Token("fence"), Token("braces"), Token("fence")>>}

Replies == {RequestFailed} \cup {Content(txt) : txt \in UNION {ReplyTexts(o) : o \in JsonObjects}}

InitDetect ==
    /\ previous_snapshot \in {NewsSnapshot(1, 1, as) : as \in DetectLists}
    /\ current_snapshot \in {NewsSnapshot(1, 2 * TicksPerSecond + 1, as) : as \in CurrentLists}
    /\ significance_threshold \in Thresholds
    /\ reply \in Replies
    /\ detected = Pending
    /\ llm_requests = 0
    /\ new_snapshot = None /\ max_articles = 0 /\ merged = Pending /\ got_new_articles = Pending
    /\ saved = <<>> /\ loaded = Pending /\ retry = None /\ reported = {}
    /\ text = <<>> /\ parsed = Pending
    /\ RunUnused

DetectCall ==
    /\ detected = Pending
    /\ LET out == detect_changes(1, previous_snapshot, current_snapshot,
                                 significance_threshold, reply)
       IN  /\ detected' = [raised |-> out.raised, value |-> out.value,
                            prompt |-> out.prompt]
           /\ llm_requests' = llm_requests + out.requests
    /\ UNCHANGED <<sideVars, previous_snapshot, current_snapshot, significance_threshold, reply,
                   mergeVars, parseVars, runVars>>

NextDetect == DetectCall

SpecDetect == InitDetect /\ [][NextDetect]_vars

-----------------------------------------------------------------------------
(* Claims about detect_changes, checked under SpecDetect *)

DetectDone == detected # Pending
DetectReturned == DetectDone /\ detected.raised = "none"

\* The articles of current whose url no article of previous carries.
NewRelativeTo(current, previous) ==
    LET fresh(a) == \A i \in DOMAIN previous.articles : previous.articles[i].url # a.url
    IN  SelectSeq(current.articles, fresh)

\* Every url of current_snapshot is a url of previous_snapshot.
NothingNew ==
    \A i \in DOMAIN current_snapshot.articles :
        \E j \in DOMAIN previous_snapshot.articles :
            previous_snapshot.articles[j].url = current_snapshot.articles[i].url

\* The service answered, and the text handed to the parser.
Answered == reply.raised = "none"
AnswerText == ResultText(reply.content)

\* C4: when no url of current_snapshot is new, detect_changes returns a verdict
\* with score 0.0, is_significant false and no new articles, and issues no
\* text-generation request.
C4_ShortCircuitNoNewArticles ==
    (DetectDone /\ NothingNew) =>
        /\ detected.raised = "none"
        /\ detected.value.significance_score = 0
        /\ detected.value.is_significant = FALSE
        /\ detected.value.new_articles = <<>>
        /\ llm_requests = 0

\* A call with a non-empty current snapshot holding nothing new, whose reply
\* would have been a significant one.
C4_Witness ==
    /\ DetectDone /\ NothingNew
    /\ current_snapshot.articles # <<>>
    /\ reply = Content(<<ObjectToken(JsonObject(Num(10), "true", Summary("model text", 0)))>>)

\* C5: every verdict returned with a score above the threshold is significant,
\* whatever the reply gave for IS_SIGNIFICANT.
C5_AboveThresholdIsSignificant ==
    (DetectReturned /\ detected.value.significance_score > significance_threshold)
        => detected.value.is_significant = TRUE

\* The reply parsed to an object whose IS_SIGNIFICANT member is the boolean true.
ExplicitTrueFlag ==
    /\ Answered
    /\ parse_json_response(AnswerText).raised = "none"
    /\ parse_json_response(AnswerText).value.type = "dict"
    /\ parse_json_response(AnswerText).value.obj.IS_SIGNIFICANT = "true"

\* C6: a verdict returned for a reply with an explicit true flag is
\* significant, also when its score is at or below the threshold.
C6_ExplicitFlagNotSuppressed ==
    (DetectReturned /\ ~NothingNew /\ ExplicitTrueFlag)
        => detected.value.is_significant = TRUE

\* A verdict for an explicit true flag with a score at or below the threshold.
C6_Witness ==
    /\ DetectReturned /\ ~NothingNew /\ ExplicitTrueFlag
    /\ detected.value.significance_score <= significance_threshold

\* None of the three strategies parses the reply text.
Unparseable ==
    /\ Answered
    /\ ~WholeParses(AnswerText)
    /\ ~FencedParses(AnswerText)
    /\ ~BracesParse(AnswerText)

\* C7: with at least one new article and a reply no strategy can parse,
\* detect_changes does not raise and returns score 0.5, is_significant true, a
\* summary stating the count N of new articles, and the N new articles.
C7_FallbackVerdict ==
    (DetectDone /\ ~NothingNew /\ Unparseable) =>
        /\ detected.raised = "none"
        /\ detected.value.significance_score = 5
        /\ detected.value.is_significant = TRUE
        /\ detected.value.change_summary =
               Summary("analysis failed", Len(NewRelativeTo(current_snapshot, previous_snapshot)))
        /\ detected.value.new_articles = NewRelativeTo(current_snapshot, previous_snapshot)

\* A plain-prose reply for two new articles.
C7_Witness ==
    /\ DetectDone /\ Unparseable
    /\ reply = Content(<<Token("prose")>>)
    /\ Len(NewRelativeTo(current_snapshot, previous_snapshot)) = 2

\* C8: whatever text the service replies, detect_changes with new articles
\* completes with a verdict and raises nothing.
C8_NeverRaisesOnAnyReply ==
    (DetectDone /\ ~NothingNew /\ Answered) => detected.raised = "none"

\* C15: a call of detect_changes issues at most one text-generation request
\* (exactly one when some article is new); when that request fails, the call
\* ends with the request's exception and yields no verdict.
C15_OneRequestFailurePropagates ==
    DetectDone =>
        /\ llm_requests <= 1
        /\ ~NothingNew => llm_requests = 1
        /\ (~NothingNew /\ ~Answered) =>
               /\ detected.raised = reply.raised
               /\ detected.value = None

C15_Witness ==
    /\ DetectDone
    /\ ~NothingNew
    /\ ~Answered
    /\ llm_requests = 1
    /\ detected.raised = "APIError"

\* The reply parsed to a JSON object, and that object.
ParsedObject ==
    /\ parse_json_response(AnswerText).raised = "none"
    /\ parse_json_response(AnswerText).value.type = "dict"

ReplyObject == parse_json_response(AnswerText).value.obj

\* Some key of the object is missing.
LacksField(o) ==
    \/ o.SIGNIFICANCE_SCORE.k = "absent"
    \/ o.IS_SIGNIFICANT = "absent"
    \/ o.CHANGE_SUMMARY.kind = "absent"

\* Every key of the object is missing or has a value of the expected type and range.
PresentFieldsValid(o) ==
    /\ \/ o.SIGNIFICANCE_SCORE.k = "absent"
       \/ /\ o.SIGNIFICANCE_SCORE.k \in {"number", "numeric string"}
          /\ o.SIGNIFICANCE_SCORE.v \in 0..10
    /\ o.IS_SIGNIFICANT \in {"absent", "true", "false"}
    /\ o.CHANGE_SUMMARY.kind \in {"absent", "model text"}

C16_VerdictIdsAndAllNewArticles ==
    (DetectReturned /\ ~NothingNew) =>
        /\ detected.value.previous_snapshot_id = previous_snapshot.snapshot_id
        /\ detected.value.current_snapshot_id = current_snapshot.snapshot_id
        /\ detected.value.new_articles = NewRelativeTo(current_snapshot, previous_snapshot)
        /\ Len(detected.prompt.new_articles) <= PromptLimit

\* Eleven new articles: the prompt showed ten, the verdict lists eleven.
C16_Witness ==
    /\ DetectReturned
    /\ ~NothingNew
    /\ Len(detected.prompt.new_articles) = PromptLimit
    /\ Len(detected.value.new_articles) = PromptLimit + 1
    /\ previous_snapshot.snapshot_id # current_snapshot.snapshot_id

-----------------------------------------------------------------------------
(* Storage (storage.py) *)

\* The news directory of one question: latest.json and the timestamped files.
EmptyDir == [latest |-> None, stamped |-> {}]

\* _get_timestamp_filename(snapshot.fetched_at)
TimestampFilename(snapshot) == strftime(snapshot.fetched_at)

\* datetime in JSON: ISO-8601 text, which keeps the sub-second part.
isoformat(dt) == [iso |-> dt]
fromisoformat(s) == s.iso

\* One article as a JSON object, and back.
ArticleJson(a) == [json |-> "object", url |-> a.url, rev |-> a.rev]
ArticleOfJson(o) == [url |-> o.url, rev |-> o.rev]

\* Mutant of model_dump_json: the articles are written last first.
model_dump_json_reversed(snapshot) ==
    [json        |-> "object",
     question_id |-> snapshot.question_id,
     fetched_at  |-> isoformat(snapshot.fetched_at),
     articles    |-> [i \in DOMAIN snapshot.articles |->
                         ArticleJson(snapshot.articles[Len(snapshot.articles) + 1 - i])],
     snapshot_id |-> snapshot.snapshot_id]

\* model.model_dump_json(): the JSON text of a snapshot, every field written,
\* the articles as an array in list order.
model_dump_json(snapshot) ==
    [json        |-> "object",
     question_id |-> snapshot.question_id,
     fetched_at  |-> isoformat(snapshot.fetched_at),
     articles    |-> [i \in DOMAIN snapshot.articles |-> ArticleJson(snapshot.articles[i])],
     snapshot_id |-> snapshot.snapshot_id]

\* NewsSnapshot.model_validate(json.load(f)): the fields are read back and
\* model_post_init runs on the snapshot_id the file gives.
model_validate(doc) ==
    [question_id |-> doc.question_id,
     fetched_at  |-> fromisoformat(doc.fetched_at),
     articles    |-> [i \in DOMAIN doc.articles |-> ArticleOfJson(doc.articles[i])],
     snapshot_id |-> model_post_init(doc.snapshot_id, fromisoformat(doc.fetched_at))]

\* A file of the news directory.
File(name, content) == [name |-> name, content |-> content]

\* The timestamped write of save_news: a file of the same name is overwritten.
WriteStamped(dir, snapshot) ==
    [dir EXCEPT !.stamped =
        {f \in dir.stamped : f.name # TimestampFilename(snapshot)}
            \cup {File(TimestampFilename(snapshot), model_dump_json(snapshot))}]

\* The latest.json write of save_news.
WriteLatest(dir, snapshot) == [dir EXCEPT !.latest = model_dump_json(snapshot)]

save_news(dir, snapshot) == WriteLatest(WriteStamped(dir, snapshot), snapshot)

\* load_latest_news: None when latest.json does not exist.
load_latest_news(dir) ==
    IF dir.latest = None THEN None ELSE model_validate(dir.latest)

-----------------------------------------------------------------------------
(* process_question and main (run.py) *)

\* def merge_with_previous(..., max_articles: int = 50)
DefaultMaxArticles == 50

\* Config.significance_threshold = 0.2, handed to ChangeDetector by main
ConfigThreshold == 2

\* config.question_ids, as get_questions_to_process returns them
Questions == <<1, 2>>

NewsUpdate(question, news_snapshot, change_report) ==
    [question |-> question, news_snapshot |-> news_snapshot, change_report |-> change_report]

\* The external call that fails in a call of process_question, if any.
Faults == {"none", "load", "fetch", "save_stamped", "save_latest", "save_question"}

\* What a call of process_question did: the value it returned (an update or
\* None), the news directory it leaves, the steps it reached, the number of
\* text-generation requests it issued, and the exception that left the call.
Processed(returned, dir, steps, requests) ==
    [returned |-> returned, dir |-> dir, steps |-> steps, requests |-> requests,
     raised |-> "none"]

\* A handler that lets the exception leave process_question.
CatchNothing(exc) == exc

\* except Exception (lines 94-98): every exception of the try block is caught.
CatchAll(exc) == "none"

\* An exception inside the try block: the handler prints it and returns None.
Failed(exc, dir, steps, requests) ==
    [returned |-> None, dir |-> dir, steps |-> steps, requests |-> requests,
     raised |-> CatchAll(exc)]

\* A first-run branch that builds a verdict of score 0.0 when nothing was found.
FirstRunAlwaysReports(question, merged_news) ==
    IF merged_news.articles # <<>>
    THEN ChangeReport(question, None, merged_news.snapshot_id,
                      Summary("First news aggregation", Len(merged_news.articles)),
                      10, "true", merged_news.articles)
    ELSE ChangeReport(question, merged_news.snapshot_id, merged_news.snapshot_id,
                      Summary("First news aggregation", 0), 0, "false", <<>>)

\* The first-run branch (lines 66-80): a verdict only when articles were found.
FirstRunReport(question, merged_news) ==
    IF merged_news.articles # <<>>
    THEN ChangeReport(question, None, merged_news.snapshot_id,
                      Summary("First news aggregation", Len(merged_news.articles)),
                      10, "true", merged_news.articles)
    ELSE Returned(None)

\* Lines 82-92: save the snapshot, save the question, return the update.
SaveAndReturn(question, dir, merged_news, change_report, steps, requests, fault) ==
    IF fault = "save_stamped" THEN Failed("OSError", dir, steps, requests)
    ELSE IF fault = "save_latest"
         THEN Failed("OSError", WriteStamped(dir, merged_news), steps, requests)
    ELSE IF fault = "save_question"
         THEN Failed("OSError", save_news(dir, merged_news),
                     steps \o <<"save_news">>, requests)
    ELSE Processed(NewsUpdate(question, merged_news, change_report),
                   save_news(dir, merged_news),
                   steps \o <<"save_news", "save_question">>, requests)

\* A process_question that saves the merged snapshot before it classifies.
process_question_persist_first(question, dir, fetched_at, fetched, rep, fault) ==
    IF fault = "load" THEN Failed("OSError", dir, <<>>, 0)
    ELSE IF fault = "fetch" THEN Failed("FetchError", dir, <<"load">>, 0)
    ELSE
    LET previous_news == load_latest_news(dir)
        new_news      == NewsSnapshot(question, fetched_at, fetched)
        merged_news   == merge_with_previous(new_news, previous_news, DefaultMaxArticles)
        persisted     == SaveAndReturn(question, dir, merged_news, None,
                                       <<"load", "fetch", "merge">>, 0, fault)
        verdict       == IF previous_news # None
                         THEN detect_changes(question, previous_news, merged_news,
                                             ConfigThreshold, rep)
                         ELSE FirstRunReport(question, merged_news) @@ [requests |-> 0]
        kind          == IF previous_news # None THEN "detect" ELSE "first run"
    IN  IF persisted.returned = None THEN persisted
        ELSE IF verdict.raised # "none"
             THEN Failed(verdict.raised, persisted.dir, persisted.steps \o <<kind>>,
                         verdict.requests)
             ELSE Processed(NewsUpdate(question, merged_news, verdict.value), persisted.dir,
                            persisted.steps \o <<kind>>, verdict.requests)

\* process_question: any exception inside the try block ends the call with None.
process_question(question, dir, fetched_at, fetched, rep, fault) ==
    IF fault = "load" THEN Failed("OSError", dir, <<>>, 0)
    ELSE IF fault = "fetch" THEN Failed("FetchError", dir, <<"load">>, 0)
    ELSE
    LET previous_news == load_latest_news(dir)
        new_news      == NewsSnapshot(question, fetched_at, fetched)
        merged_news   == merge_with_previous(new_news, previous_news, DefaultMaxArticles)
    IN  IF previous_news # None
        THEN LET det == detect_changes(question, previous_news, merged_news,
                                       ConfigThreshold, rep)
             IN  IF det.raised # "none"
                 THEN Failed(det.raised, dir, <<"load", "fetch", "merge", "detect">>,
                             det.requests)
                 ELSE SaveAndReturn(question, dir, merged_news, det.value,
                                    <<"load", "fetch", "merge", "detect">>,
                                    det.requests, fault)
        ELSE LET first == FirstRunReport(question, merged_news)
             IN  IF first.raised # "none"
                 THEN Failed(first.raised, dir,
                             <<"load", "fetch", "merge", "first run">>, 0)
                 ELSE SaveAndReturn(question, dir, merged_news, first.value,
                                    <<"load", "fetch", "merge", "first run">>, 0, fault)

\* significant_updates (lines 204-206)
RECURSIVE SignificantUpdates(_)
SignificantUpdates(us) ==
    IF us = <<>> THEN <<>>
    ELSE IF Head(us).change_report # None /\ Head(us).change_report.is_significant
         THEN <<Head(us)>> \o SignificantUpdates(Tail(us))
         ELSE SignificantUpdates(Tail(us))

-----------------------------------------------------------------------------
(* Spec: runs of main over the question list *)

\* What a fetch returns in the runs of the model.
FetchUrls == {"A", "B"}
FetchedLists == SeqsUpTo({a \in NewsArticle : a.url \in FetchUrls /\ a.rev = 1}, MaxFetch)

\* The replies of the text-generation service in the runs of the model: a
\* failed request, prose, a JSON array, and objects that are not significant,
\* significant, above the threshold with the flag given as the string "false",
\* and scored above 1.0 and below 0.0.
RunReplies ==
    {RequestFailed,
     Content(<<Token("prose")>>),
     Content(<<Token("array")>>),
     Content(<<ObjectToken(JsonObject(Num(0), "false", Summary("model text", 0)))>>),
     Content(<<ObjectToken(JsonObject(Num(10), "true", Summary("model text", 0)))>>),
     Content(<<ObjectToken(JsonObject(Num(3), "'false'", Summary("model text", 0)))>>),
     Content(<<ObjectToken(JsonObject(Num(11), "true", Summary("model text", 0)))>>),
     Content(<<ObjectToken(JsonObject(Num(0 - 1), "true", Summary("model text", 0)))>>)}

\* The news directory of a question that earlier runs of main have processed:
\* a first run that found nothing, then a run that found article A.
StoredDir(question) ==
    save_news(save_news(EmptyDir, NewsSnapshot(question, 0 - 2 * TicksPerSecond, <<>>)),
              NewsSnapshot(question, 0 - TicksPerSecond, <<[url |-> "A", rev |-> 1]>>))

\* The data directory main starts from: each question is new or already stored.
DataDirs == [{Questions[i] : i \in DOMAIN Questions} -> {"new", "stored"}]

StorageOf(d) ==
    [q \in DOMAIN d |-> IF d[q] = "stored" THEN StoredDir(q) ELSE EmptyDir]

\* The fetch answers only when the load before it did not fail and it does not
\* fail itself.
FetchesUnder(fault) ==
    IF fault \in {"load", "fetch"} THEN {<<>>} ELSE FetchedLists

\* The text-generation service answers only when it is asked: neither the load
\* nor the fetch failed, the question has a stored snapshot, and the fetch
\* brought an article whose URL the stored snapshot does not have.
RepliesUnder(fault, dir, fetched) ==
    IF \/ fault \in {"load", "fetch"}
       \/ dir.latest = None
       \/ \A i \in DOMAIN fetched :
              fetched[i].url \in UrlSet(load_latest_news(dir).articles)
    THEN {RequestFailed}
    ELSE RunReplies

Init ==
    /\ storage \in {StorageOf(d) : d \in DataDirs}
    /\ now = 0
    /\ pc = "idle"
    /\ index = 0
    /\ updates = <<>>
    /\ emailed = None
    /\ last = None
    /\ new_snapshot = None /\ previous_snapshot = None /\ max_articles = 0
    /\ merged = Pending /\ got_new_articles = Pending
    /\ saved = <<>> /\ loaded = Pending /\ retry = None /\ reported = {}
    /\ text = <<>> /\ parsed = Pending
    /\ current_snapshot = None /\ significance_threshold = ConfigThreshold /\ reply = None
    /\ detected = Pending /\ llm_requests = 0

harnessVars == <<previous_snapshot, mergeVars, parseVars,
                 current_snapshot, significance_threshold, reply, detected>>

\* main up to the question loop (lines 138-187).
StartRun ==
    /\ pc = "idle"
    /\ now < MaxTime
    /\ pc' = "processing"
    /\ index' = 1
    /\ updates' = <<>>
    /\ emailed' = None
    /\ UNCHANGED <<sideVars, storage, now, last, llm_requests, harnessVars>>

\* One iteration of the question loop (lines 188-196).
ProcessQuestion ==
    /\ pc = "processing"
    /\ index <= Len(Questions)
    /\ now < MaxTime
    /\ \E fault \in Faults :
       \E fetched \in FetchesUnder(fault) :
       \E rep \in RepliesUnder(fault, storage[Questions[index]], fetched) :
       \E done \in {process_question(Questions[index], storage[Questions[index]],
                                      now + 1, fetched, rep, fault)} :
        LET question == Questions[index]
        IN  /\ storage' = [storage EXCEPT ![question] = done.dir]
            /\ updates' = IF done.returned # None
                          THEN Append(updates, done.returned)
                          ELSE updates
            /\ pc' = IF done.raised = "none" THEN pc ELSE "crashed"
            /\ index' = IF done.raised = "none" THEN index + 1 ELSE index
            /\ llm_requests' = llm_requests + done.requests
            /\ last' = [question  |-> question,
                        previous  |-> load_latest_news(storage[question]),
                        fault     |-> fault,
                        fetched   |-> fetched,
                        reply     |-> rep,
                        steps     |-> done.steps,
                        requests  |-> done.requests,
                        returned  |-> done.returned]
    /\ now' = now + 1
    /\ UNCHANGED <<sideVars, emailed, harnessVars>>

\* A notification step that calls send_news_alert whenever email is configured.
NotifyAlways(configured, significant_updates) ==
    IF configured THEN [updates |-> significant_updates] ELSE None

\* Lines 222-232: send_news_alert is called when email is configured and some
\* update is significant; the value is the call with its list, or None.
Notify(configured, significant_updates) ==
    IF configured /\ significant_updates # <<>>
    THEN [updates |-> significant_updates]
    ELSE None

\* The summary and the notification (lines 198-232).
Summarize ==
    /\ pc = "processing"
    /\ index > Len(Questions)
    /\ \E configured \in BOOLEAN :
        emailed' = [configured |-> configured,
                    sent       |-> Notify(configured, SignificantUpdates(updates))]
    /\ pc' = "idle"
    /\ UNCHANGED <<sideVars, storage, now, index, updates, last, llm_requests, harnessVars>>

Next == StartRun \/ ProcessQuestion \/ Summarize

Spec == Init /\ [][Next]_vars

-----------------------------------------------------------------------------
(* Claims about process_question and main, checked under Spec *)

\* The last call of process_question was a first run whose fetch returned at
\* least one article, and no storage or fetch call failed in it.
FirstRunWithArticles ==
    /\ last # None
    /\ last.fault = "none"
    /\ last.previous = None
    /\ Len(last.fetched) >= 1

\* C10: a first run whose fetch returns k >= 1 articles does not invoke the
\* classifier and produces an update whose verdict has score 1.0, is
\* significant and lists the k fetched articles as new.
C10_FirstRunVerdict ==
    FirstRunWithArticles =>
        /\ last.requests = 0
        /\ \A i \in DOMAIN last.steps : last.steps[i] # "detect"
        /\ last.returned # None
        /\ last.returned.change_report # None
        /\ last.returned.change_report.significance_score = 10
        /\ last.returned.change_report.is_significant = TRUE
        /\ last.returned.change_report.new_articles = last.fetched

\* The last call of process_question was a first run whose fetch returned no
\* article, and no storage or fetch call failed in it.
FirstRunNoArticles ==
    /\ last # None
    /\ last.fault = "none"
    /\ last.previous = None
    /\ last.fetched = <<>>

\* C11: a first run whose fetch returns zero articles produces an update with
\* no verdict at all (change_report is None, which is no verdict of score 0.0),
\* and does not invoke the classifier.
C11_FirstRunNoArticlesNoVerdict ==
    FirstRunNoArticles =>
        /\ last.returned # None
        /\ last.returned.change_report = None
        /\ last.returned.news_snapshot.articles = <<>>
        /\ last.requests = 0

C11_Witness ==
    /\ FirstRunNoArticles
    /\ last.returned # None
    /\ Len(updates) >= 1
    /\ updates[Len(updates)] = last.returned

\* C12: whatever happens while one question is processed (a failed load,
\* fetch, text-generation request or save, or any other exception), the loop
\* goes on to the next question of the list: the run does not end there.
C12_FailureDoesNotAbortRun ==
    [][(pc = "processing" /\ index <= Len(Questions)) =>
           /\ pc' = "processing"
           /\ index' = index + 1
           /\ last'.question = Questions[index]]_vars

\* The first question failed, the second was processed, the summary was reached.
C12_Witness ==
    /\ pc = "idle"
    /\ index = Len(Questions) + 1
    /\ emailed # None
    /\ Len(updates) = 1
    /\ updates[1].question = Questions[2]

\* The steps of the last call contain step a somewhere before step b.
StepBefore(a, b) ==
    \E i, j \in DOMAIN last.steps :
        i < j /\ last.steps[i] = a /\ last.steps[j] = b

\* The last call of process_question invoked the classifier.
Classified ==
    last # None /\ \E i \in DOMAIN last.steps : last.steps[i] = "detect"

\* C13 as stated: whenever the classifier is invoked for a question, the merged
\* snapshot has been persisted before.
C13_Original_PersistBeforeClassify ==
    Classified => StepBefore("save_news", "detect")

IsPrefix(s, t) == Len(s) <= Len(t) /\ s = SubSeq(t, 1, Len(s))

\* C13 amended: the steps of a question are load, fetch, merge, classify (or
\* the first-run branch), persist, in this order; when classification raised,
\* nothing was persisted; and the notification comes after the question loop.
C13_ClassifyBeforePersist ==
    /\ last # None =>
        /\ \E kind \in {"detect", "first run"} :
               IsPrefix(last.steps,
                        <<"load", "fetch", "merge", kind, "save_news", "save_question">>)
        /\ (last.fault = "none" /\ last.returned = None) =>
               load_latest_news(storage[last.question]) = last.previous
    /\ emailed # None => (pc = "idle" /\ index > Len(Questions))

C13_Witness ==
    /\ Classified
    /\ StepBefore("detect", "save_news")
    /\ last.returned # None
    /\ load_latest_news(storage[last.question]) = last.returned.news_snapshot
    /\ emailed # None

\* u has a verdict and the verdict is significant.
HasSignificantVerdict(u) ==
    u.change_report # None /\ u.change_report.is_significant = TRUE

\* C14: send_news_alert is called with exactly the updates of the run that
\* have a verdict with is_significant = true, in their order; it is not called
\* when no update is significant; when email is configured and some update is
\* significant, it is called.
C14_NotifierGetsExactlySignificant ==
    emailed # None =>
        /\ emailed.sent # None =>
               /\ emailed.sent.updates # <<>>
               /\ emailed.sent.updates = SelectSeq(updates, HasSignificantVerdict)
        /\ emailed.sent = None <=>
               \/ ~emailed.configured
               \/ \A i \in DOMAIN updates : ~HasSignificantVerdict(updates[i])

\* A run with a significant update and another that is not: only the first
\* is handed to the notifier.
C14_Witness ==
    /\ emailed # None
    /\ emailed.sent # None
    /\ Len(emailed.sent.updates) = 1
    /\ Len(updates) = 2

\* The verdicts that exist in a run: those of the updates, of the last call,
\* and of the updates handed to the notifier.
VerdictsOf(us) ==
    {us[i].change_report : i \in {j \in DOMAIN us : us[j].change_report # None}}

Verdicts ==
    VerdictsOf(updates)
        \cup (IF last # None /\ last.returned # None THEN VerdictsOf(<<last.returned>>) ELSE {})
        \cup (IF emailed # None /\ emailed.sent # None
              THEN VerdictsOf(emailed.sent.updates) ELSE {})

\* C17: every verdict, from the classifier or from the first-run branch, has a
\* score between 0.0 and 1.0.
C17_ScoreWithinUnitInterval ==
    \A v \in Verdicts : 0 <= v.significance_score /\ v.significance_score <= 10

\* One question got the score 1.0; the other was scored 1.1 by the service
\* and got no verdict.
C17_Witness ==
    /\ \E v \in Verdicts : v.significance_score = 10
    /\ last # None
    /\ last.requests = 1
    /\ last.reply = Content(<<ObjectToken(JsonObject(Num(11), "true", Summary("model text", 0)))>>)
    /\ last.returned = None

\* The last call of process_question met no failing external call: no load,
\* fetch or save failed, and the text-generation request, if one was issued,
\* was answered.
NoExternalFailure ==
    /\ last # None
    /\ last.fault = "none"
    /\ (last.requests = 0 \/ last.reply # RequestFailed)

\* C26: when process_question runs and none of its external calls fails, it
\* returns an update (not None) and the merged snapshot of the run is the
\* question's latest stored snapshot afterwards, so that the next run of the
\* question is not a first run.
C26_FaultFreeReturnsAndPersists ==
    NoExternalFailure =>
        /\ last.returned # None
        /\ load_latest_news(storage[last.question]) # None
        /\ load_latest_news(storage[last.question]) = last.returned.news_snapshot

\* The classifier of the step just taken failed: process_question reached
\* detect_changes, and the request or the construction of the verdict raised.
ClassifierFailed(q, previous, fetched_at, fetched, rep) ==
    /\ previous # None
    /\ detect_changes(q, previous,
                      merge_with_previous(NewsSnapshot(q, fetched_at, fetched), previous,
                                          DefaultMaxArticles),
                      ConfigThreshold, rep).raised # "none"

\* C28: when the classifier call fails for a question (the request raises or
\* building the verdict raises), process_question returns None and the stored
\* state of the question is as before the call: neither latest.json nor a
\* timestamped file is written, so the same articles are new again next time.
C28_ClassifierFailureLeavesStorage ==
    [][(/\ now' # now
        /\ last'.fault \notin {"load", "fetch"}
        /\ ClassifierFailed(last'.question, last'.previous, now', last'.fetched, last'.reply))
       => /\ last'.returned = None
          /\ storage' = storage
          /\ get_new_articles(NewsSnapshot(last'.question, now', last'.fetched),
                              load_latest_news(storage'[last'.question]))
                 = get_new_articles(NewsSnapshot(last'.question, now', last'.fetched),
                                    last'.previous)]_vars

\* A failed request for a stored question: nothing returned, nothing written.
C28_Witness ==
    /\ last # None
    /\ last.fault = "none"
    /\ last.requests = 1
    /\ last.reply = RequestFailed
    /\ last.returned = None
    /\ last.fetched # <<>>
    /\ storage[last.question] = StoredDir(last.question)

-----------------------------------------------------------------------------
(* Further claims about the aggregator, checked under SpecMerge *)

\* C18: with previous_snapshot absent, merge_with_previous returns
\* new_snapshot as it is (same question, fetch time, id and articles), for
\* every max_articles, also 0, negative, or below the number of articles.
C18_AbsentPreviousReturnsNewSnapshot ==
    (MergeReturned /\ previous_snapshot = None) =>
        /\ merged = new_snapshot
        /\ Len(merged.articles) = Len(new_snapshot.articles)

\* No previous snapshot, max_articles 0, and all fetched articles returned.
C18_Witness ==
    /\ MergeReturned
    /\ previous_snapshot = None
    /\ max_articles = 0
    /\ Len(new_snapshot.articles) = MaxLen
    /\ merged = new_snapshot

GetNewReturned == got_new_articles # Pending

\* C19: get_new_articles(current, previous) returns the articles of current
\* unfiltered when previous is absent, and otherwise the articles of current
\* whose url no article of previous has, in the order of current.
C19_GetNewArticles ==
    GetNewReturned =>
        got_new_articles.value = IF previous_snapshot = None
                                 THEN new_snapshot.articles
                                 ELSE NewRelativeTo(new_snapshot, previous_snapshot)

\* One article of current was known by its url, in another revision, and
\* dropped; another was new and kept.
C19_Witness ==
    /\ GetNewReturned
    /\ previous_snapshot # None
    /\ Len(new_snapshot.articles) = 2
    /\ Len(got_new_articles.value) = 1
    /\ \E i \in DOMAIN new_snapshot.articles :
           /\ new_snapshot.articles[i] # got_new_articles.value[1]
           /\ \A j \in DOMAIN previous_snapshot.articles :
                  previous_snapshot.articles[j] # new_snapshot.articles[i]

\* C20: the call of merge_with_previous leaves its two argument snapshots as
\* they were, and with them the storage, the count of text-generation
\* requests and what was handed to the notifier.
C20_MergeLeavesInputsAndWorld ==
    [][(merged = Pending /\ merged' # Pending) =>
           /\ new_snapshot' = new_snapshot
           /\ previous_snapshot' = previous_snapshot
           /\ max_articles' = max_articles
           /\ storage' = storage
           /\ llm_requests' = llm_requests
           /\ emailed' = emailed]_vars

\* A merge whose result differs from both of its arguments.
C20_Witness ==
    /\ MergeReturned
    /\ previous_snapshot # None
    /\ merged.articles # new_snapshot.articles
    /\ merged.articles # previous_snapshot.articles
    /\ Len(merged.articles) > Len(new_snapshot.articles)

-----------------------------------------------------------------------------
(* SpecStore: sequences of save_news and load_latest_news on one question *)

MaxSaves == 3           \* most calls of save_news in a behaviour

\* The article lists of the snapshots saved.
StoreLists ==
    {<<>>,
     <<[url |-> "A", rev |-> 1]>>,
     <<[url |-> "A", rev |-> 1], [url |-> "B", rev |-> 1]>>,
     <<[url |-> "B", rev |-> 2], [url |-> "A", rev |-> 1]>>}

InitStore ==
    /\ storage = [q \in {1} |-> EmptyDir]
    /\ now = 0
    /\ saved = <<>>
    /\ loaded = Pending
    /\ pc = "idle" /\ index = 0 /\ updates = <<>> /\ emailed = None /\ last = None
    /\ retry = None /\ reported = {}
    /\ new_snapshot = None /\ previous_snapshot = None /\ max_articles = 0
    /\ merged = Pending /\ got_new_articles = Pending
    /\ text = <<>> /\ parsed = Pending
    /\ current_snapshot = None /\ significance_threshold = 0 /\ reply = None
    /\ detected = Pending /\ llm_requests = 0

\* save_news(1, snapshot), the snapshot fetched one tick or more after the last.
SaveNewsCall ==
    /\ Len(saved) < MaxSaves
    /\ \E dt \in 1..TicksPerSecond, as \in StoreLists :
        LET snapshot == NewsSnapshot(1, now + dt, as)
        IN  /\ storage' = [storage EXCEPT ![1] = save_news(storage[1], snapshot)]
            /\ saved' = Append(saved, snapshot)
            /\ now' = now + dt
    /\ loaded' = Pending
    /\ UNCHANGED <<pc, index, updates, emailed, last, retry, reported, previous_snapshot,
                   mergeVars, parseVars, detectVars>>

\* load_latest_news(1)
LoadLatestCall ==
    /\ loaded = Pending
    /\ loaded' = [value |-> load_latest_news(storage[1])]
    /\ UNCHANGED <<saved, runVars, retry, reported, previous_snapshot,
                   mergeVars, parseVars, detectVars>>

NextStore == SaveNewsCall \/ LoadLatestCall

SpecStore == InitStore /\ [][NextStore]_vars

-----------------------------------------------------------------------------
(* Claims about the storage, checked under SpecStore *)

LastSaved == saved[Len(saved)]

\* C21: load_latest_news after save_news yields a snapshot with the
\* snapshot_id of the saved one and the same article urls in the same order.
C21_SaveLoadRoundTrip ==
    (loaded # Pending /\ saved # <<>>) =>
        /\ loaded.value # None
        /\ loaded.value.snapshot_id = LastSaved.snapshot_id
        /\ UrlsOf(loaded.value.articles) = UrlsOf(LastSaved.articles)

\* The snapshot [B, A] was saved and loaded back.
C21_Witness ==
    /\ loaded # Pending
    /\ saved # <<>>
    /\ UrlsOf(LastSaved.articles) = <<"B", "A">>
    /\ loaded.value = LastSaved

\* The first snapshot saved under the file name of the i-th.
FirstSavedAs(i) ==
    saved[CHOOSE j \in 1..i :
              /\ TimestampFilename(saved[j]) = TimestampFilename(saved[i])
              /\ \A k \in 1..(j - 1) :
                     TimestampFilename(saved[k]) # TimestampFilename(saved[i])]

\* C22: after any sequence of save_news calls, latest.json holds the snapshot
\* saved last, and every timestamped file holds what was first written to it.
C22_LatestIsLastRecordsImmutable ==
    /\ saved # <<>> => load_latest_news(storage[1]) = LastSaved
    /\ \A i \in DOMAIN saved :
           \E f \in storage[1].stamped :
               /\ f.name = TimestampFilename(saved[i])
               /\ f.content = model_dump_json(FirstSavedAs(i))

-----------------------------------------------------------------------------
(* MetaculusClient._request_with_retry (metaculus_client.py); times are in
   tenths of a second *)

MIN_REQUEST_INTERVAL == 10
MAX_RETRIES == 5
INITIAL_BACKOFF == 20

\* What requests.get yields: a response with a status code, or an exception.
StatusCodes == {200, 401, 403, 404, 429, 500, 503}
Response(status_code) == [status_code |-> status_code]
GetOutcomes == {Returned(Response(c)) : c \in StatusCodes} \cup {Raised("ConnectionError")}

\* _rate_limit: the sleep that fills up the minimum interval.
RateLimitSleep(elapsed) ==
    IF elapsed < MIN_REQUEST_INTERVAL THEN MIN_REQUEST_INTERVAL - elapsed ELSE 0

\* Mutant of Backoff: the wait grows by INITIAL_BACKOFF with each attempt.
BackoffLinear(attempt) == INITIAL_BACKOFF * (attempt + 1)

\* backoff = self.INITIAL_BACKOFF * (2 ** attempt)
Backoff(attempt) == INITIAL_BACKOFF * 2 ^ attempt

\* The time since the last request of the client when the call starts.
ElapsedAtCall == {0, 5, 10, 20}

InitRetry ==
    /\ retry \in {[attempt   |-> 0,        \* the loop variable
                    elapsed   |-> e,        \* time since _last_request_time
                    pauses    |-> <<>>,     \* the sleeps of _rate_limit
                    responses |-> <<>>,     \* what each requests.get yielded
                    backoffs  |-> <<>>,     \* the sleeps after a 429
                    result    |-> Pending] : e \in ElapsedAtCall}
    /\ storage = None /\ now = 0 /\ pc = "idle" /\ index = 0
    /\ updates = <<>> /\ emailed = None /\ last = None
    /\ saved = <<>> /\ loaded = Pending /\ reported = {}
    /\ new_snapshot = None /\ previous_snapshot = None /\ max_articles = 0
    /\ merged = Pending /\ got_new_articles = Pending
    /\ text = <<>> /\ parsed = Pending
    /\ current_snapshot = None /\ significance_threshold = 0 /\ reply = None
    /\ detected = Pending /\ llm_requests = 0

retryFrame == <<storeVars, reported, previous_snapshot, mergeVars, parseVars, detectVars, runVars>>

\* One iteration of the loop (lines 42-53).
RetryAttempt ==
    /\ retry.result = Pending
    /\ retry.attempt < MAX_RETRIES
    /\ \E got \in GetOutcomes :
        LET asked == [retry EXCEPT !.pauses = Append(@, RateLimitSleep(retry.elapsed)),
                                   !.elapsed = 0,
                                   !.responses = Append(@, got)]
        IN  retry' =
                IF got.raised # "none" THEN [asked EXCEPT !.result = Raised(got.raised)]
                ELSE IF got.value.status_code = 429
                     THEN [asked EXCEPT !.backoffs = Append(@, Backoff(retry.attempt)),
                                        !.elapsed = Backoff(retry.attempt),
                                        !.attempt = @ + 1]
                     ELSE [asked EXCEPT !.result = Returned(got.value)]
    /\ UNCHANGED retryFrame

\* The loop is exhausted (lines 55-56).
RetryGiveUp ==
    /\ retry.result = Pending
    /\ retry.attempt >= MAX_RETRIES
    /\ retry' = [retry EXCEPT !.result = Returned(None)]
    /\ UNCHANGED retryFrame

NextRetry == RetryAttempt \/ RetryGiveUp

SpecRetry == InitRetry /\ [][NextRetry]_vars

-----------------------------------------------------------------------------
(* Claims about _request_with_retry, checked under SpecRetry *)

RateLimited(got) == got.raised = "none" /\ got.value.status_code = 429

\* C25: a call issues at most MAX_RETRIES = 5 requests and is never stuck
\* before it ends; every response before the last was a 429; the call returns
\* the first response that is not a 429, and None exactly when five responses
\* were 429; the wait after the k-th 429 (k from 0) is INITIAL_BACKOFF * 2^k.
C25_RetryBoundedBackoff ==
    /\ Len(retry.responses) <= MAX_RETRIES
    /\ retry.result = Pending => ENABLED NextRetry
    /\ \A i \in 1..(Len(retry.responses) - 1) : RateLimited(retry.responses[i])
    /\ (retry.result # Pending /\ retry.result.raised = "none" /\ retry.result.value # None) =>
           /\ ~RateLimited(retry.responses[Len(retry.responses)])
           /\ retry.result = retry.responses[Len(retry.responses)]
    /\ (retry.result # Pending /\ retry.result = Returned(None)) <=>
           /\ retry.result # Pending
           /\ Len(retry.responses) = 5
           /\ \A i \in 1..5 : RateLimited(retry.responses[i])
    /\ Len(retry.backoffs) =
           Cardinality({i \in DOMAIN retry.responses : RateLimited(retry.responses[i])})
    /\ \A k \in 0..(Len(retry.backoffs) - 1) :
           retry.backoffs[k + 1] = INITIAL_BACKOFF * 2 ^ k

\* Five 429 in a row: five requests, waits of 2, 4, 8, 16 and 32 s, None.
C25_Witness ==
    /\ retry.result = Returned(None)
    /\ Len(retry.responses) = 5
    /\ retry.backoffs = <<20, 40, 80, 160, 320>>

-----------------------------------------------------------------------------
(* SpecHistory: successive runs of process_question on one question, with the
   defaults of the pipeline (15 results a fetch, 50 articles a snapshot) *)

\* fetch_news_for_question(..., num_results: int = 15)
NumResults == 15

MaxRuns == 6            \* most runs of process_question in a behaviour

\* The number of the run that starts now; the runs are a second apart.
RunNumber == now \div TicksPerSecond + 1

\* A fetch that returns NumResults articles no earlier fetch returned.
FreshBatch(run) ==
    [i \in 1..NumResults |-> [url |-> (run - 1) * NumResults + i, rev |-> 1]]

\* The URLs the verdicts have listed as new so far.
ReportedUrls == UNION {reported[i] : i \in DOMAIN reported}

\* A fetch that returns again one article reported before, with new content:
\* the first or the last article of the oldest batch reported.
Refetches ==
    IF ReportedUrls = {} THEN {}
    ELSE {<<[url |-> u, rev |-> 2]>> :
              u \in {SetMin(ReportedUrls), SetMin(ReportedUrls) + NumResults - 1}}

\* What the fetch of a run returns: nothing, a fresh batch, or a refetch.
HistoryFetches == {<<>>, FreshBatch(RunNumber)} \cup Refetches

\* The reply of the text-generation service when it is asked: a significant
\* verdict, or a failed request.
HistoryReply ==
    Content(<<ObjectToken(JsonObject(Num(10), "true", Summary("model text", 0)))>>)

HistoryReplies(dir, fetched) ==
    IF RepliesUnder("none", dir, fetched) = RunReplies
    THEN {HistoryReply, RequestFailed}
    ELSE {HistoryReply}

InitHistory ==
    /\ storage = [q \in {Questions[1]} |-> EmptyDir]
    /\ now = 0
    /\ last = None
    /\ reported = <<>>
    /\ pc = "idle" /\ index = 0 /\ updates = <<>> /\ emailed = None
    /\ saved = <<>> /\ loaded = Pending /\ retry = None
    /\ new_snapshot = None /\ previous_snapshot = None /\ max_articles = 0
    /\ merged = Pending /\ got_new_articles = Pending
    /\ text = <<>> /\ parsed = Pending
    /\ current_snapshot = None /\ significance_threshold = ConfigThreshold /\ reply = None
    /\ detected = Pending /\ llm_requests = 0

\* One run of main for the question: process_question with no failing load,
\* fetch or save.
HistoryRun ==
    /\ RunNumber <= MaxRuns
    /\ \E fetched \in HistoryFetches :
       \E rep \in HistoryReplies(storage[Questions[1]], fetched) :
       \E done \in {process_question(Questions[1], storage[Questions[1]],
                                      now + TicksPerSecond, fetched, rep, "none")} :
        /\ storage' = [storage EXCEPT ![Questions[1]] = done.dir]
        /\ llm_requests' = llm_requests + done.requests
        /\ last' = [question  |-> Questions[1],
                    previous  |-> load_latest_news(storage[Questions[1]]),
                    fault     |-> "none",
                    fetched   |-> fetched,
                    reply     |-> rep,
                    steps     |-> done.steps,
                    requests  |-> done.requests,
                    returned  |-> done.returned]
        /\ reported' = IF done.returned # None /\ done.returned.change_report # None
                       THEN Append(reported,
                                   UrlSet(done.returned.change_report.new_articles))
                       ELSE reported
    /\ now' = now + TicksPerSecond
    /\ UNCHANGED <<pc, index, updates, emailed, storeVars, retry, previous_snapshot,
                   mergeVars, parseVars, current_snapshot, significance_threshold,
                   reply, detected>>

NextHistory == HistoryRun

SpecHistory == InitHistory /\ [][NextHistory]_vars

-----------------------------------------------------------------------------
(* Claims about the history of a question, checked under SpecHistory *)

\* The snapshot latest.json of the question holds now (or None).
Stored == load_latest_news(storage[Questions[1]])

\* The last run returned an update with a verdict.
HasVerdict ==
    last # None /\ last.returned # None /\ last.returned.change_report # None

\* The last run merged more articles than max_articles allows to keep.
Truncated ==
    /\ last # None
    /\ last.previous # None
    /\ Len(get_new_articles(NewsSnapshot(last.question, now, last.fetched), last.previous))
           + Len(last.previous.articles) > DefaultMaxArticles

\* C23: with at most 15 articles a fetch and max_articles = 50, the latest
\* stored snapshot of every question holds at most 50 articles after any
\* sequence of runs.
C23_HistoryBounded ==
    \A q \in DOMAIN storage :
        load_latest_news(storage[q]) # None =>
            Len(load_latest_news(storage[q]).articles) <= DefaultMaxArticles

\* Four batches of 15 after an empty first run: 60 articles merged, 50 kept.
C23_Witness ==
    /\ Truncated
    /\ Len(last.previous.articles) = 45
    /\ last.returned # None
    /\ Len(Stored.articles) = DefaultMaxArticles

\* C27 as stated: a URL listed as new in the verdict of one run is never
\* listed as new in the verdict of a later run.
C27_Original_NeverReportedTwice ==
    \A i, j \in DOMAIN reported : i < j => reported[i] \cap reported[j] = {}

\* C27 amended: a URL listed as new in a verdict is not a URL of the snapshot
\* stored before that run, and is a URL of the snapshot stored after it: a URL
\* is listed again only after truncation dropped it from the stored history.
C27_NotReportedWhileStored ==
    HasVerdict =>
        /\ last.previous # None =>
               UrlSet(last.returned.change_report.new_articles)
                   \cap UrlSet(last.previous.articles) = {}
        /\ UrlSet(last.returned.change_report.new_articles) \subseteq UrlSet(Stored.articles)
        /\ \A i \in 1..(Len(reported) - 1) :
               \A u \in reported[i] \cap reported[Len(reported)] :
                   last.previous # None /\ u \notin UrlSet(last.previous.articles)

\* An article reported before and still stored is fetched again with new
\* content: the verdict of the run lists nothing as new.
C27_Witness ==
    /\ HasVerdict
    /\ Len(last.fetched) = 1
    /\ last.fetched[1].rev = 2
    /\ \E i \in 1..(Len(reported) - 1) : last.fetched[1].url \in reported[i]
    /\ last.fetched[1].url \in UrlSet(last.previous.articles)
    /\ last.returned.change_report.new_articles = <<>>
    /\ last.requests = 0

\* C29: the list of new articles of the verdict, which the classifier derives
\* from the stored previous snapshot and the merged snapshot, is
\* get_new_articles(fetched snapshot, previous snapshot): the fetched articles
\* whose URL the previous snapshot does not have, in fetch order; the
\* classifier is asked exactly when that list is not empty.
C29_DetectorSeesFetchedNew ==
    (HasVerdict /\ last.previous # None) =>
        /\ last.returned.change_report.new_articles =
               get_new_articles(NewsSnapshot(last.question, now, last.fetched),
                                last.previous)
        /\ last.requests = 1 <=>
               get_new_articles(NewsSnapshot(last.question, now, last.fetched),
                                last.previous) # <<>>

\* A full history of 50 articles and a fresh batch of 15: the merge drops 15
\* old articles and the verdict lists the 15 fetched ones.
C29_Witness ==
    /\ HasVerdict
    /\ Truncated
    /\ Len(last.previous.articles) = DefaultMaxArticles
    /\ Len(last.fetched) = NumResults
    /\ last.returned.change_report.new_articles = last.fetched
    /\ last.requests = 1

====
